---- MODULE Spec2Model ----
(***************************************************************************)
(* Model of src/main.py: the trigger-detection, identity-resolution and    *)
(* conversation-lifecycle code of the bot.                                 *)
(*                                                                         *)
(* Every inbound message is handled by one coroutine (message_handler).    *)
(* A coroutine runs without interruption until it awaits the transport     *)
(* (send_message, get_users, get_chat), the completion service or          *)
(* asyncio.sleep; there the event loop may run any other handler.  Each    *)
(* action below is therefore one run of a handler from one suspension      *)
(* point to the next.                                                      *)
(*                                                                         *)
(* Text is modelled as a sequence of tokens: a token is a word, the        *)
(* letters "id", a colon, a blank, a trigger phrase (lower or upper case)  *)
(* or a maximal run of digits given by its length n and its value v.       *)
(***************************************************************************)
EXTENDS Integers, Sequences, FiniteSets, TLC

\* ------------------------------------------------------------------ bounds
\* Number of messages handled in one run (handler coroutines).
MaxHandlers == 3
\* Delivery attempts of one greeting the transport may rate-limit.
MaxAttempts == 3
\* Largest clock reading of datetime.now().
MaxNow == 1
\* Buttons of an inline keyboard in the resolution runs.
MaxButtons == 2

\* ------------------------------------------------------------- basic values
Ids == {1, 2}
None == -1
H == 1..MaxHandlers

\* Python truthiness of an Optional[int].
Falsy(x) == x = None \/ x = 0

\* ------------------------------------------------------------------- text
Tok(k) == [k |-> k, n |-> 0, v |-> 0]
Num(n, v) == [k |-> "num", n |-> n, v |-> v]
Empty == << >>

\* str.lower(): an upper-case trigger phrase becomes the lower-case one.
LowerTok(t) == IF t.k = "TRIG" THEN Tok("trig") ELSE t
Lower(text) == [i \in 1..Len(text) |-> LowerTok(text[i])]

\* str.strip(): leading and trailing blanks are removed.
RECURSIVE LStrip(_)
LStrip(text) ==
    IF text # Empty /\ Head(text).k = " " THEN LStrip(Tail(text)) ELSE text
RECURSIVE RStrip(_)
RStrip(text) ==
    IF text # Empty /\ text[Len(text)].k = " "
    THEN RStrip(SubSeq(text, 1, Len(text) - 1))
    ELSE text
Strip(text) == RStrip(LStrip(text))

\* any(phrase in text.lower() for phrase in TRIGGER_PHRASES)
is_trigger_message(text) == \E i \in 1..Len(text) : Lower(text)[i].k = "trig"

\* re.search(r'id[:\s]+(\d+)', text): the positions of the digit runs that
\* follow "id" and one or more colons or blanks.
IsSep(t) == t.k = ":" \/ t.k = " "
LabeledAt(text, j) ==
    /\ text[j].k = "num"
    /\ \E i \in 1..(j - 2) :
         /\ text[i].k = "id"
         /\ \A m \in (i + 1)..(j - 1) : IsSep(text[m])
Labeled(text) == {j \in 1..Len(text) : LabeledAt(text, j)}
\* As LongRuns, with the pattern (\d+): any run of digits.
LongRunsAny(text) == {j \in 1..Len(text) : text[j].k = "num"}

\* re.search(r'(\d{9,})', text): the positions of the runs of 9 or more digits.
LongRuns(text) == {j \in 1..Len(text) : text[j].k = "num" /\ text[j].n >= 9}
Min(S) == CHOOSE x \in S : \A y \in S : x <= y

\* The first run of 9 or more digits in a string, as an int; None without one.
SearchLongRun(text) ==
    IF LongRuns(text) # {} THEN text[Min(LongRuns(text))].v ELSE None

extract_user_id_from_message(text) ==
    IF Labeled(text) # {} THEN text[Min(Labeled(text))].v
    ELSE SearchLongRun(text)

\* ------------------------------------------------------------ configuration
\* cfg_get("telegram", "daving_bot").lstrip("@"): the trusted trigger source.
DAVING_BOT == "leomatchbot"
DEFAULT_MESSAGE == <<Tok("w"), Tok(" "), Tok("w")>>
\* f"{AI_ROLE}\n\n{AI_PROMPT}"
PERSONA == <<Tok("w"), Tok(" "), Tok(" "), Tok("w")>>
\* The fixed reply of get_ai_response when the completion service fails.
FILLER == <<Tok("w"), Tok(" "), Tok("w"), Tok(" "), Tok("w")>>

\* Usernames; "" stands for None. str.lower() folds the case variant.
UNameLower(u) == IF u = "LeoMatchBot" THEN "leomatchbot" ELSE u

\* ---------------------------------------------------------------- messages
\* An inline button: button.user (an identity or None), button.callback_data
\* (a text, Empty for None) and button.url:
\*   ""            no url
\*   "tme_user"    https://t.me/<username>
\*   "tme_invite"  https://t.me/+<hash>
\*   "web"         a url outside t.me
Button(user, cb, url) == [user |-> user, callback_data |-> cb, url |-> url]
UserBtn(u) == Button(u, Empty, "")
CbBtn(cb) == Button(None, cb, "")
UrlBtn(url) == Button(None, Empty, url)

\* 't.me' in button.url
HasTme(url) == url \in {"tme_user", "tme_invite"}
\* re.search(r't\.me/(\w+)', button.url): \w+ does not match "+".
UrlName(url) == url = "tme_user"

User(id, username, is_bot) == [id |-> id, username |-> username, is_bot |-> is_bot]
NoUser == User(None, "", FALSE)

\* msg.chat (present or not), chat.username, chat.id < 0, msg.from_user,
\* msg.text, msg.caption, msg.reply_markup.inline_keyboard (rows of buttons),
\* msg.entities, msg.forward_from, msg.reply_to_message.from_user.
Msg(chat, cu, neg, fu, text, caption, kb, ents, fwd, rep) ==
    [chat |-> chat, chat_username |-> cu, chat_neg |-> neg, from_user |-> fu,
     text |-> text, caption |-> caption, keyboard |-> kb, entities |-> ents,
     forward_from |-> fwd, reply_from |-> rep]
NoMsg == Msg(FALSE, "", FALSE, NoUser, Empty, Empty, << >>, << >>, None, None)

\* msg.text or msg.caption or ""
TextOf(msg) == IF msg.text # Empty THEN msg.text ELSE msg.caption

\* for row in inline_keyboard: for button in row: the buttons in scan order.
RECURSIVE Buttons(_)
Buttons(rows) == IF rows = << >> THEN << >> ELSE Head(rows) \o Buttons(Tail(rows))

\* ------------------------------------------------------ identity resolution
\* The button loop of get_user_id_from_message: ret says whether the loop
\* returned, id is the value it returned.
CallbackHit(b) ==
    b.callback_data # Empty /\ SearchLongRun(b.callback_data) # None
RECURSIVE ScanButtons(_)
ScanButtons(bs) ==
    IF bs = << >> THEN [ret |-> FALSE, id |-> None]
    ELSE LET b == Head(bs) IN
         IF b.user # None THEN [ret |-> TRUE, id |-> b.user]
         ELSE IF CallbackHit(b)
              THEN [ret |-> TRUE, id |-> SearchLongRun(b.callback_data)]
         ELSE IF b.url # "" /\ HasTme(b.url) /\ UrlName(b.url)
              THEN [ret |-> TRUE, id |-> None]
         ELSE ScanButtons(Tail(bs))

\* The first entity of type MENTION that carries a user.
MentionHits(ents) ==
    {i \in 1..Len(ents) : ents[i].type = "MENTION" /\ ents[i].user # None}

get_user_id_from_message(msg) ==
    LET scan == ScanButtons(Buttons(msg.keyboard))
        fromText == extract_user_id_from_message(TextOf(msg))
    IN  IF scan.ret THEN scan.id
        ELSE IF ~Falsy(fromText) THEN fromText
        ELSE IF MentionHits(msg.entities) # {}
             THEN msg.entities[Min(MentionHits(msg.entities))].user
        ELSE IF msg.forward_from # None THEN msg.forward_from
        ELSE IF msg.reply_from # None THEN msg.reply_from
        ELSE None

\* The button loop of handle_trigger_message, entered when
\* get_user_id_from_message gave nothing: the first button at or after
\* position p that either needs a username lookup or carries a user; 0 when
\* there is none.
NeedsLookup(b) == b.url # "" /\ HasTme(b.url) /\ UrlName(b.url)
CarriesUser(b) == ~(b.url # "" /\ HasTme(b.url)) /\ b.user # None
ScanFallback(bs, p) ==
    LET hits == {q \in p..Len(bs) : NeedsLookup(bs[q]) \/ CarriesUser(bs[q])}
    IN  IF hits = {} THEN 0 ELSE Min(hits)

\* ------------------------------------------------------------------ state
VARIABLES
    active_conversations,   \* dict: identity -> [state, started_at]
    conversations_history,  \* dict: identity -> sequence of turns
    handlers,               \* the coroutine of each message: where it is suspended
    now,                    \* the last reading of datetime.now()
    greetings,              \* identity -> number of greetings the transport delivered
    inbox                   \* the message whose identity is being resolved

vars == <<active_conversations, conversations_history, handlers, now, greetings, inbox>>

Turn(role, content) == [role |-> role, content |-> content]
\* datetime.now().isoformat()
IsoFormat(t) == <<"iso", t>>

\* A coroutine: its suspension point pc, the branch of message_handler it
\* took (kind), user_id, the message while it is still needed, the position
\* of the button loop, the text it sends, the calls of send_message it has
\* made, the history it found when get_ai_response was called (h0), whether
\* the completion succeeded (ok) and how it ended (out).
Handler(pc, kind, uid, msg, pos, text, attempts, h0, ok, out) ==
    [pc |-> pc, kind |-> kind, user_id |-> uid, msg |-> msg, pos |-> pos,
     text |-> text, attempts |-> attempts, h0 |-> h0, ok |-> ok, out |-> out]
Idle == Handler("idle", "", None, NoMsg, 0, Empty, 0, << >>, FALSE, "")
Ended(pc, kind, uid, out) ==
    Handler(pc, kind, uid, NoMsg, 0, Empty, 0, << >>, FALSE, out)

Init ==
    /\ active_conversations = << >>
    /\ conversations_history = << >>
    /\ handlers = [h \in H |-> Idle]
    /\ now = 0
    /\ greetings = [u \in Ids |-> 0]
    /\ inbox = NoMsg

Set(h, rec) == handlers' = [handlers EXCEPT ![h] = rec]
Store == <<active_conversations, conversations_history, now, greetings>>

\* ---------------------------------------------------- handle_trigger_message
\* Lines 201-206 and the call of send_message at line 136: a trigger without
\* identity is dropped, one for a known identity does nothing, one for a new
\* identity calls the transport and waits for its answer.
\* As CheckAndGreet, without the test of line 205.
CheckAndGreetUnchecked(h, uid) ==
    /\ UNCHANGED Store
    /\ IF Falsy(uid)
       THEN Set(h, Ended("done", "trigger", uid, "unresolved"))
       ELSE Set(h, Handler("send_default", "trigger", uid, NoMsg, 0,
                           DEFAULT_MESSAGE, 1, << >>, FALSE, ""))

CheckAndGreet(h, uid) ==
    /\ UNCHANGED Store
    /\ IF Falsy(uid)
       THEN Set(h, Ended("done", "trigger", uid, "unresolved"))
       ELSE IF uid \notin DOMAIN active_conversations
       THEN Set(h, Handler("send_default", "trigger", uid, NoMsg, 0,
                           DEFAULT_MESSAGE, 1, << >>, FALSE, ""))
       ELSE Set(h, Ended("done", "trigger", uid, "noop"))

\* The fallback loop of lines 182-199 from button position p on; uid is the
\* falsy user_id (None or 0) the loop was entered with.
FallbackFrom(h, msg, p, uid) ==
    LET bs == Buttons(msg.keyboard)
        q == ScanFallback(bs, p)
    IN  IF q = 0 THEN CheckAndGreet(h, uid)
        ELSE IF NeedsLookup(bs[q])
        THEN /\ UNCHANGED Store
             /\ Set(h, Handler("get_users", "trigger", uid, msg, q, Empty, 0,
                               << >>, FALSE, ""))
        ELSE CheckAndGreet(h, bs[q].user)

handle_trigger_message(h, msg) ==
    LET user_id == get_user_id_from_message(msg)
    IN  IF Falsy(user_id) THEN FallbackFrom(h, msg, 1, user_id)
        ELSE CheckAndGreet(h, user_id)

\* client.get_users answers with a user: user_id = target_user.id; break.
GetUsersOk(h, id) ==
    /\ handlers[h].pc = "get_users"
    /\ UNCHANGED inbox
    /\ CheckAndGreet(h, id)

\* client.get_users raises: except: pass, the loop goes to the next button.
GetUsersFail(h) ==
    /\ handlers[h].pc = "get_users"
    /\ UNCHANGED inbox
    /\ FallbackFrom(h, handlers[h].msg, handlers[h].pos + 1, handlers[h].user_id)

\* ------------------------------------------------------ send_default_message
\* d[k] = v on a dict.
Put(d, k, v) == (k :> v) @@ d

\* As NewState, with the conversation recorded as already active.
NewStateActive(t) == [state |-> "active", started_at |-> IsoFormat(t)]

NewState(t) == [state |-> "waiting_response", started_at |-> IsoFormat(t)]
\* As Seeded, without the system turn.
SeededNoSystem == <<Turn("assistant", DEFAULT_MESSAGE)>>

Seeded == <<Turn("system", PERSONA), Turn("assistant", DEFAULT_MESSAGE)>>

\* As SendDefaultOk, without the assignment of lines 143-146.
SendDefaultOkNoHistory(h, t) ==
    LET u == handlers[h].user_id IN
    /\ handlers[h].pc = "send_default"
    /\ t >= now
    /\ now' = t
    /\ greetings' = [greetings EXCEPT ![u] = @ + 1]
    /\ active_conversations' = Put(active_conversations, u, NewState(t))
    /\ Set(h, Ended("done", "trigger", u, "greeted"))
    /\ UNCHANGED <<conversations_history, inbox>>

\* send_message returned (line 136): lines 137-146 record the conversation.
\* t is the reading of the clock at line 141.
SendDefaultOk(h, t) ==
    LET u == handlers[h].user_id IN
    /\ handlers[h].pc = "send_default"
    /\ t >= now
    /\ now' = t
    /\ greetings' = [greetings EXCEPT ![u] = @ + 1]
    /\ active_conversations' = Put(active_conversations, u, NewState(t))
    /\ conversations_history' = Put(conversations_history, u, Seeded)
    /\ Set(h, Ended("done", "trigger", u, "greeted"))
    /\ UNCHANGED inbox

\* send_message raised FloodWait (lines 147-150): the coroutine sleeps.
SendDefaultFlood(h) ==
    /\ handlers[h].pc = "send_default"
    /\ handlers[h].attempts < MaxAttempts
    /\ Set(h, [handlers[h] EXCEPT !.pc = "sleep_default"])
    /\ UNCHANGED <<Store, inbox>>

\* asyncio.sleep returned (line 151): send_default_message calls itself,
\* which calls send_message again.
WakeDefault(h) ==
    /\ handlers[h].pc = "sleep_default"
    /\ Set(h, [handlers[h] EXCEPT !.pc = "send_default", !.attempts = @ + 1])
    /\ UNCHANGED <<Store, inbox>>

\* As SendDefaultError, with the conversation recorded all the same.
SendDefaultErrorRecords(h) ==
    LET u == handlers[h].user_id IN
    /\ handlers[h].pc = "send_default"
    /\ active_conversations' = Put(active_conversations, u, NewState(now))
    /\ conversations_history' = Put(conversations_history, u, Seeded)
    /\ Set(h, Ended("done", "trigger", u, "send_failed"))
    /\ UNCHANGED <<now, greetings, inbox>>

\* send_message raised another error (lines 152-153): logged, nothing stored.
SendDefaultError(h) ==
    /\ handlers[h].pc = "send_default"
    /\ Set(h, Ended("done", "trigger", handlers[h].user_id, "send_failed"))
    /\ UNCHANGED <<Store, inbox>>

\* ------------------------------------------- get_ai_response, user responses
\* Lines 156-161: the history is created if missing, the user turn appended.
WithUserTurn(hist, u, user_message) ==
    LET base == IF u \in DOMAIN hist THEN hist[u] ELSE <<Turn("system", PERSONA)>>
    IN  Put(hist, u, Append(base, Turn("user", user_message)))

\* handle_user_response up to the call of the completion service (line 164).
handle_user_response(h, msg) ==
    LET user_id == msg.from_user.id
        user_text == TextOf(msg)
    IN  IF Falsy(user_id) \/ user_id \notin DOMAIN active_conversations
             \/ Strip(user_text) = Empty
        THEN /\ UNCHANGED Store
             /\ Set(h, Ended("done", "reply", user_id, "ignored"))
        ELSE /\ conversations_history' =
                    WithUserTurn(conversations_history, user_id, user_text)
             /\ UNCHANGED <<active_conversations, now, greetings>>
             /\ Set(h, Handler("ai", "reply", user_id, NoMsg, 0, user_text, 0,
                               IF user_id \in DOMAIN conversations_history
                               THEN conversations_history[user_id] ELSE << >>,
                               FALSE, ""))

\* The completion service answered with the text raw (lines 171-174), then
\* handle_user_response calls send_message (line 223).
CompletionOk(h, raw) ==
    LET u == handlers[h].user_id
        ai_message == Strip(raw)
    IN  /\ handlers[h].pc = "ai"
        /\ conversations_history' =
               [conversations_history EXCEPT ![u] = Append(@, Turn("assistant", ai_message))]
        /\ Set(h, [handlers[h] EXCEPT !.pc = "send_reply", !.text = ai_message,
                                      !.attempts = 1, !.ok = TRUE])
        /\ UNCHANGED <<active_conversations, now, greetings, inbox>>

\* The completion service failed, or its answer had no content (lines
\* 175-177): the filler is returned and sent.
CompletionFail(h) ==
    /\ handlers[h].pc = "ai"
    /\ Set(h, [handlers[h] EXCEPT !.pc = "send_reply", !.text = FILLER,
                                  !.attempts = 1, !.ok = FALSE])
    /\ UNCHANGED <<Store, inbox>>

\* send_message returned (lines 223-224 or 229).
SendReplyOk(h) ==
    /\ handlers[h].pc \in {"send_reply", "retry_reply"}
    /\ Set(h, Ended("done", "reply", handlers[h].user_id, "replied"))
    /\ UNCHANGED <<Store, inbox>>

\* The first send_message raised FloodWait (lines 225-228).
SendReplyFlood(h) ==
    /\ handlers[h].pc = "send_reply"
    /\ Set(h, [handlers[h] EXCEPT !.pc = "sleep_reply"])
    /\ UNCHANGED <<Store, inbox>>

\* asyncio.sleep returned: send_message is called again (line 229).
WakeReply(h) ==
    /\ handlers[h].pc = "sleep_reply"
    /\ Set(h, [handlers[h] EXCEPT !.pc = "retry_reply", !.attempts = @ + 1])
    /\ UNCHANGED <<Store, inbox>>

\* The first send_message raised another error (lines 230-231): logged.
SendReplyError(h) ==
    /\ handlers[h].pc = "send_reply"
    /\ Set(h, Ended("done", "reply", handlers[h].user_id, "reply_failed"))
    /\ UNCHANGED <<Store, inbox>>

\* The send_message of line 229 raised (FloodWait or any other error): it is
\* raised inside the except clause, which no other clause of the try statement
\* covers, so it leaves handle_user_response and message_handler.
RetryRaise(h) ==
    /\ handlers[h].pc = "retry_reply"
    /\ Set(h, Ended("raised", "reply", handlers[h].user_id, "raised"))
    /\ UNCHANGED <<Store, inbox>>

\* ------------------------------------------------------------ message_handler
\* As Dispatch, with "or" for the "and" of line 259.
DispatchAnyTrigger(h, msg, is_from_daving) ==
    IF is_from_daving \/ is_trigger_message(Strip(TextOf(msg)))
    THEN handle_trigger_message(h, msg)
    ELSE IF msg.from_user.id # None /\ msg.from_user.id \in DOMAIN active_conversations
            /\ ~is_from_daving
    THEN handle_user_response(h, msg)
    ELSE /\ UNCHANGED Store
         /\ Set(h, Ended("done", "ignored", None, "ignored"))

\* Lines 259-266, once is_from_daving is known.
Dispatch(h, msg, is_from_daving) ==
    IF is_from_daving /\ is_trigger_message(Strip(TextOf(msg)))
    THEN handle_trigger_message(h, msg)
    ELSE IF msg.from_user.id # None /\ msg.from_user.id \in DOMAIN active_conversations
            /\ ~is_from_daving
    THEN handle_user_response(h, msg)
    ELSE /\ UNCHANGED Store
         /\ Set(h, Ended("done", "ignored", None, "ignored"))

IsDaving(username) == username # "" /\ UNameLower(username) = UNameLower(DAVING_BOT)

\* Lines 234-257: the message is dropped, or its source is known at once, or
\* the chat has to be fetched (client.get_chat).
message_handler(h, msg) ==
    IF ~msg.chat \/ Strip(TextOf(msg)) = Empty
    THEN /\ UNCHANGED Store
         /\ Set(h, Ended("done", "ignored", None, "ignored"))
    ELSE IF IsDaving(msg.chat_username) THEN Dispatch(h, msg, TRUE)
    ELSE IF msg.from_user.id # None /\ IsDaving(msg.from_user.username)
         THEN Dispatch(h, msg, TRUE)
    ELSE IF msg.from_user.id # None /\ msg.from_user.is_bot /\ msg.chat_neg
         THEN /\ UNCHANGED Store
              /\ Set(h, Handler("get_chat", "", None, msg, 0, Empty, 0, << >>, FALSE, ""))
    ELSE Dispatch(h, msg, FALSE)

\* client.get_chat answered with a chat of the given username, or raised
\* (username "": except: pass).
GetChatReply(h, username) ==
    /\ handlers[h].pc = "get_chat"
    /\ UNCHANGED inbox
    /\ Dispatch(h, handlers[h].msg, IsDaving(username))

\* ------------------------------------------------------------------ inputs
\* The account of the trigger source, a person, a bot posting in a group.
DavingUser == User(9, "LeoMatchBot", TRUE)
Person(u) == User(u, "alice", FALSE)
GroupBot == User(9, "", TRUE)

\* A message in the private chat with the trigger source.
FromDaving(text, kb, ents, fwd, rep) ==
    Msg(TRUE, "LeoMatchBot", FALSE, DavingUser, text, Empty, kb, ents, fwd, rep)
\* A message a person sends in the private chat with that person.
FromPerson(u, text, caption) ==
    Msg(TRUE, "alice", FALSE, Person(u), text, caption, << >>, << >>, None, None)

TriggerText == <<Tok("TRIG")>>

\* The messages of the conversation runs.
Messages ==
    {FromDaving(TriggerText, <<<<UserBtn(u)>>>>, << >>, None, None) : u \in Ids}
    \cup {FromDaving(<<Tok("trig"), Tok(" "), Tok("id"), Tok(":"), Num(9, u)>>,
                     << >>, << >>, None, None) : u \in Ids}
    \cup {FromDaving(TriggerText, <<<<UrlBtn("tme_user")>>>>, << >>, None, None),
          FromDaving(TriggerText, << >>, << >>, None, None),
          FromDaving(<<Tok("w")>>, << >>, << >>, None, None),
          Msg(TRUE, "", TRUE, GroupBot, TriggerText, Empty, <<<<UserBtn(1)>>>>,
              << >>, None, None),
          Msg(FALSE, "", FALSE, Person(1), <<Tok("w")>>, Empty, << >>, << >>,
              None, None),
          Msg(TRUE, "", TRUE, NoUser, <<Tok("w")>>, Empty, << >>, << >>, None, None)}
    \cup {FromPerson(u, <<Tok("w")>>, Empty) : u \in Ids}
    \cup {FromPerson(u, Empty, <<Tok("w")>>) : u \in Ids}
    \cup {FromPerson(u, <<Tok(" ")>>, <<Tok("w")>>) : u \in Ids}

\* The answers of the completion service.
Completions == {<<Tok(" "), Tok("w"), Tok("w"), Tok(" ")>>}
\* The usernames client.get_chat may report ("": it raised).
ChatNames == {"leomatchbot", "alice", ""}

\* A new message arrives: its coroutine runs up to its first suspension.
\* Coroutines are numbered in the order of arrival.
Arrive(h, msg) ==
    /\ handlers[h].pc = "idle"
    /\ IF h = 1 THEN TRUE ELSE handlers[h - 1].pc # "idle"
    /\ UNCHANGED inbox
    /\ message_handler(h, msg)

Next ==
    \E h \in H :
        \/ \E msg \in Messages : Arrive(h, msg)
        \/ \E name \in ChatNames : GetChatReply(h, name)
        \/ \E id \in Ids : GetUsersOk(h, id)
        \/ GetUsersFail(h)
        \/ \E t \in 0..MaxNow : SendDefaultOk(h, t)
        \/ SendDefaultFlood(h)
        \/ WakeDefault(h)
        \/ SendDefaultError(h)
        \/ \E raw \in Completions : CompletionOk(h, raw)
        \/ CompletionFail(h)
        \/ SendReplyOk(h)
        \/ SendReplyFlood(h)
        \/ WakeReply(h)
        \/ SendReplyError(h)
        \/ RetryRaise(h)

Spec == Init /\ [][Next]_vars

\* -------------------------------------------------------- resolution runs
\* Identity resolution alone: one trigger message of the trusted source,
\* drawn from every combination of buttons, text, mention, forward and reply
\* origin, is resolved by handle_trigger_message.
ButtonKinds ==
    {UserBtn(1), UserBtn(2), CbBtn(<<Tok("w"), Num(9, 2)>>), CbBtn(<<Num(5, 1)>>),
     CbBtn(<<Num(9, 0)>>), UrlBtn("tme_user"), UrlBtn("tme_invite"), UrlBtn("web")}
ButtonSeqs == UNION {[1..n -> ButtonKinds] : n \in 0..MaxButtons}
\* All buttons in one row, or one button per row.
Layouts(bs) == {<<bs>>, [i \in 1..Len(bs) |-> <<bs[i]>>]}
Keyboards == UNION {Layouts(bs) : bs \in ButtonSeqs}
ResolveTexts ==
    {<<Tok("TRIG")>>,
     <<Tok("trig"), Tok(" "), Num(9, 1)>>,
     <<Tok("trig"), Tok(" "), Num(5, 1)>>,
     <<Tok("trig"), Num(12, 2)>>,
     <<Tok("trig"), Tok(" "), Tok("id"), Tok(":"), Tok(" "), Num(5, 2)>>,
     <<Tok("trig"), Tok(" "), Tok("id"), Num(9, 1)>>,
     <<Tok("trig"), Tok(" "), Tok("id"), Tok(":"), Num(9, 0)>>}
Entity(type, user) == [type |-> type, user |-> user]
ResolveEntities == {<< >>, <<Entity("BOLD", None), Entity("MENTION", 2)>>}
ResolveMessages ==
    {FromDaving(text, kb, ents, fwd, rep) :
        text \in ResolveTexts, kb \in Keyboards, ents \in ResolveEntities,
        fwd \in {None, 1}, rep \in {None, 2}}

InitResolve ==
    /\ active_conversations = << >>
    /\ conversations_history = << >>
    /\ handlers = [h \in H |-> Idle]
    /\ now = 0
    /\ greetings = [u \in Ids |-> 0]
    /\ inbox \in ResolveMessages

\* The message under resolution arrives.
ArriveInbox ==
    /\ handlers[1].pc = "idle"
    /\ UNCHANGED inbox
    /\ message_handler(1, inbox)

NextResolve ==
    \/ ArriveInbox
    \/ \E id \in Ids : GetUsersOk(1, id)
    \/ GetUsersFail(1)

SpecResolve == InitResolve /\ [][NextResolve]_vars

\* handle_trigger_message has finished resolving the identity of the inbox.
Resolved == handlers[1].pc \notin {"idle", "get_chat", "get_users"}

\* ==================================================================== claims
Known == DOMAIN active_conversations

\* C1: two concurrent triggers for the same new identity never both pass the
\* existence check: the transport delivers at most one greeting to an identity.
C1_AtMostOneGreeting == \A u \in Ids : greetings[u] <= 1

\* C2: once an identity has an entry in the store, the entry is never created
\* again or overwritten: its value, started_at included, stays what it was.
C2_CreatedOnce ==
    [][\A u \in Known : active_conversations'[u] = active_conversations[u]]_vars

\* C3: a trigger that resolves to an identity which already has an entry does
\* nothing: the step that resolves it calls no send_message, delivers no
\* greeting and leaves the store and every history as they were, and the
\* handler ends there.
C3_KnownIdentityNoOp ==
    [][\A h \in H :
          (/\ handlers[h].pc \in {"idle", "get_chat", "get_users"}
           /\ handlers'[h].kind = "trigger"
           /\ handlers'[h].pc # "get_users"
           /\ handlers'[h].user_id \in Known)
          => (/\ handlers'[h].pc = "done"
              /\ handlers'[h].attempts = 0
              /\ greetings' = greetings
              /\ active_conversations' = active_conversations
              /\ conversations_history' = conversations_history)]_vars

\* A trigger for identity u ended as a no-op in a store that holds the entry
\* and the two-turn history of u, after the one greeting to u.
C3_Witness ==
    \E h \in H :
        /\ handlers[h].kind = "trigger" /\ handlers[h].pc = "done"
        /\ handlers[h].out = "noop"
        /\ handlers[h].user_id \in Known
        /\ greetings[handlers[h].user_id] = 1
        /\ Len(conversations_history[handlers[h].user_id]) = 2

\* The store after the greeting of u was recorded: one entry in stage
\* waiting_response (AWAITING_FIRST_REPLY) and the history [system, greeting].
FreshConversation(u) ==
    /\ u \in DOMAIN active_conversations'
    /\ active_conversations'[u].state = "waiting_response"
    /\ u \in DOMAIN conversations_history'
    /\ conversations_history'[u] =
           <<Turn("system", PERSONA), Turn("assistant", DEFAULT_MESSAGE)>>

\* C4 as stated: whenever the handling of a trigger for an identity without
\* entry ends, the store holds the fresh conversation and send_message was
\* called exactly once.
C4_TriggerAlwaysCreates ==
    [][\A h \in H :
          (handlers[h].pc = "send_default" /\ handlers'[h].pc = "done")
          => (FreshConversation(handlers[h].user_id) /\ handlers[h].attempts = 1)]_vars

\* C4 amended: when the transport accepts the first delivery attempt of the
\* greeting, the handling leaves the fresh conversation in the store, has
\* called send_message exactly once, with the default greeting, and one more
\* greeting has been delivered to the identity.
C4_FirstAttemptCreates ==
    [][\A h \in H :
          (/\ handlers[h].pc = "send_default"
           /\ handlers[h].attempts = 1
           /\ handlers'[h].out = "greeted")
          => (/\ FreshConversation(handlers[h].user_id)
              /\ handlers[h].text = DEFAULT_MESSAGE
              /\ handlers'[h].pc = "done"
              /\ greetings'[handlers[h].user_id] = greetings[handlers[h].user_id] + 1)]_vars

\* A trigger was greeted and its conversation is in the store.
C4_Witness ==
    \E h \in H :
        /\ handlers[h].out = "greeted"
        /\ handlers[h].user_id \in Known
        /\ greetings[handlers[h].user_id] = 1
        /\ active_conversations[handlers[h].user_id].state = "waiting_response"
        /\ Len(conversations_history[handlers[h].user_id]) = 2

\* C5: when the completion succeeds for a reply, the history of the identity
\* is the history found before the call plus exactly two turns, the user turn
\* with the message text and the assistant turn with the completion result,
\* and send_message is called once with that assistant text.
C5_ReplyAddsTwoTurns ==
    [][\A h \in H :
          (handlers[h].pc = "ai" /\ handlers'[h].pc = "send_reply" /\ handlers'[h].ok)
          => (/\ conversations_history'[handlers[h].user_id] =
                     handlers[h].h0 \o <<Turn("user", handlers[h].text),
                                         Turn("assistant", handlers'[h].text)>>
              /\ handlers'[h].attempts = 1)]_vars

\* C6: when the completion fails, the filler is returned and the history of
\* the identity is the history found before the call plus the one user turn.
C6_FailureAddsUserTurnOnly ==
    [][\A h \in H :
          (handlers[h].pc = "ai" /\ handlers'[h].pc = "send_reply" /\ ~handlers'[h].ok)
          => (/\ handlers'[h].text = FILLER
              /\ conversations_history'[handlers[h].user_id] =
                     Append(handlers[h].h0, Turn("user", handlers[h].text)))]_vars

\* C7: once a non-empty reply of an identity has been handled, the stage of
\* the identity is ACTIVE.
C7_ActiveAfterReply ==
    \A h \in H :
        (handlers[h].kind = "reply" /\ handlers[h].out = "replied")
        => active_conversations[handlers[h].user_id].state = "active"

\* C8: handling one trigger makes at most two delivery attempts of the
\* greeting.
C8_AtMostTwoAttempts ==
    \A h \in H : handlers[h].kind = "trigger" => handlers[h].attempts <= 2

\* C9: no exception escapes the handling of a reply, also when the retried
\* delivery is rate-limited again.
C9_NoEscape == \A h \in H : handlers[h].pc # "raised"

\* C10: a message with a button that carries a user and with a run of 9 or more
\* digits in its text resolves to the user of such a button.
UserButtons(msg) ==
    {i \in 1..Len(Buttons(msg.keyboard)) : Buttons(msg.keyboard)[i].user # None}
C10_ButtonHandleWins ==
    (Resolved /\ UserButtons(inbox) # {} /\ LongRuns(TextOf(inbox)) # {})
    => handlers[1].user_id \in {Buttons(inbox.keyboard)[i].user : i \in UserButtons(inbox)}

\* ------------------------------------------------- claims on the resolution
\* The buttons of the message under resolution, in scan order.
InboxButtons == Buttons(inbox.keyboard)
\* A text holds a run of at least lo digits.
HasRun(text, lo) == \E j \in 1..Len(text) : text[j].k = "num" /\ text[j].n >= lo
\* No button of the inbox carries a user or callback data with 9 or more digits.
NoButtonIdentity ==
    \A i \in 1..Len(InboxButtons) :
        InboxButtons[i].user = None /\ ~HasRun(InboxButtons[i].callback_data, 9)
\* A button of the inbox links to https://t.me/<username>.
HasPlainLink == \E i \in 1..Len(InboxButtons) : InboxButtons[i].url = "tme_user"

\* C11: a message with a t.me username button and no identity on its buttons,
\* whose text holds a labeled identity or a run of 9 or more digits, resolves
\* to the identity of the text, and no remote lookup is made.
C11_TextBeforeLookup ==
    (/\ handlers[1].pc # "idle"
     /\ HasPlainLink /\ NoButtonIdentity
     /\ ~Falsy(extract_user_id_from_message(TextOf(inbox))))
    => (/\ handlers[1].pc # "get_users"
        /\ handlers[1].user_id = extract_user_id_from_message(TextOf(inbox)))

\* The text search is reached: no button ends the button loop.
TextReached == NoButtonIdentity /\ ~HasPlainLink
\* Nothing but the text can give an identity.
TextOnly ==
    /\ TextReached
    /\ inbox.entities = << >> /\ inbox.forward_from = None /\ inbox.reply_from = None
\* The first run of at least 9 digits of a text that has one.
FirstLong(text) ==
    text[CHOOSE j \in 1..Len(text) :
            /\ text[j].k = "num" /\ text[j].n >= 9
            /\ \A m \in 1..(j - 1) : ~(text[m].k = "num" /\ text[m].n >= 9)]

\* C12 as stated: no number of fewer than 9 digits in the text is taken as the
\* identity, and a 12-digit number in the text is, when nothing of higher
\* priority gave one.
C12_ShortNumberNeverIdentity ==
    Resolved =>
        /\ (TextOnly /\ ~HasRun(TextOf(inbox), 9)) => Falsy(handlers[1].user_id)
        /\ (TextReached /\ Labeled(TextOf(inbox)) = {} /\ HasRun(TextOf(inbox), 12))
               => handlers[1].user_id = FirstLong(TextOf(inbox)).v

\* C12 amended: in a text without a number labeled "id:", no number of fewer
\* than 9 digits is taken as the identity, and the first run of 9 or more
\* digits (a 12-digit number, say) is, unless its value is 0; a number labeled
\* "id:" is taken whatever its length, unless its value is 0.
C12_UnlabeledShortNumberNeverIdentity ==
    Resolved =>
        /\ (TextOnly /\ Labeled(TextOf(inbox)) = {} /\ ~HasRun(TextOf(inbox), 9))
               => Falsy(handlers[1].user_id)
        /\ (/\ TextReached /\ Labeled(TextOf(inbox)) = {}
            /\ HasRun(TextOf(inbox), 9) /\ FirstLong(TextOf(inbox)).v # 0)
               => handlers[1].user_id = FirstLong(TextOf(inbox)).v
        /\ (/\ TextReached /\ Labeled(TextOf(inbox)) # {}
            /\ TextOf(inbox)[Min(Labeled(TextOf(inbox)))].v # 0)
               => handlers[1].user_id = TextOf(inbox)[Min(Labeled(TextOf(inbox)))].v

\* A text with an unlabeled 5-digit number and nothing else was resolved to no
\* identity, and the trigger dropped.
C12_Witness ==
    /\ Resolved /\ TextOnly
    /\ Labeled(TextOf(inbox)) = {}
    /\ HasRun(TextOf(inbox), 5) /\ ~HasRun(TextOf(inbox), 9)
    /\ handlers[1].pc = "done" /\ handlers[1].user_id = None

\* ------------------------------------------------- claims on the histories
IsPrefix(a, b) == Len(a) <= Len(b) /\ SubSeq(b, 1, Len(a)) = a

\* C13: the history of an identity is append-only: in every step the history
\* before the step is a prefix of the history after it.
C13_AppendOnly ==
    [][\A u \in DOMAIN conversations_history :
          /\ u \in DOMAIN conversations_history'
          /\ IsPrefix(conversations_history[u], conversations_history'[u])]_vars

\* C14: every existing history is non-empty and starts with the system turn
\* that carries the persona and instruction text.
C14_SystemTurnFirst ==
    \A u \in DOMAIN conversations_history :
        /\ Len(conversations_history[u]) >= 1
        /\ conversations_history[u][1] = [role |-> "system", content |-> PERSONA]

\* A history holds the system turn, the greeting, a user turn and an answer.
C14_Witness ==
    \E u \in DOMAIN conversations_history :
        /\ Len(conversations_history[u]) >= 4
        /\ conversations_history[u][3].role = "user"
        /\ conversations_history[u][4].role = "assistant"

\* C15: when the delivery of the greeting fails with an error other than a
\* rate-limit, the handling ends with the store as it was and with neither an
\* entry nor a history for the identity.
C15_FailedGreetingStartsNothing ==
    [][\A h \in H :
          (handlers[h].pc = "send_default" /\ handlers'[h].out = "send_failed")
          => (/\ active_conversations' = active_conversations
              /\ conversations_history' = conversations_history
              /\ handlers[h].user_id \notin DOMAIN active_conversations'
              /\ handlers[h].user_id \notin DOMAIN conversations_history')]_vars

\* ------------------------------------------------ claims on message_handler
DavingNames == {"leomatchbot", "LeoMatchBot"}
\* The message says by its usernames that it comes from the trusted source.
TrustedByName(msg) ==
    msg.chat_username \in DavingNames \/ msg.from_user.username \in DavingNames
\* The text of the message holds a trigger phrase, in either case.
HasTrigger(msg) ==
    \E i \in 1..Len(TextOf(msg)) : TextOf(msg)[i].k \in {"trig", "TRIG"}
\* The step of handler h sends nothing, calls no completion and leaves the store.
Quiet(h) ==
    /\ active_conversations' = active_conversations
    /\ conversations_history' = conversations_history
    /\ greetings' = greetings
    /\ handlers'[h].pc \in {"done", "get_chat"}
    /\ handlers'[h].attempts = 0

\* C16: a message that is neither a trigger of the trusted source nor sent by
\* an identity with an entry is ignored: its handler sends nothing, does not
\* call the completion service and leaves the store and the histories, both
\* when the source is known at once and when the chat had to be fetched.
C16_StrangerIgnored ==
    [][\A h \in H :
          /\ \A msg \in Messages :
                (/\ Arrive(h, msg)
                 /\ ~(TrustedByName(msg) /\ HasTrigger(msg))
                 /\ msg.from_user.id \notin Known)
                => Quiet(h)
          /\ \A name \in ChatNames :
                (/\ GetChatReply(h, name)
                 /\ ~(name \in DavingNames /\ HasTrigger(handlers[h].msg))
                 /\ handlers[h].msg.from_user.id \notin Known)
                => (Quiet(h) /\ handlers'[h].pc = "done")]_vars

\* A message was ignored after a conversation had been started.
C16_Witness ==
    \E h \in H :
        /\ handlers[h].kind = "ignored" /\ handlers[h].pc = "done"
        /\ \E g \in 1..(h - 1) : handlers[g].out = "greeted"


\* C17: when the username lookup of a t.me button fails and neither a later
\* button, the text nor a mention gives an identity, the trigger resolves to
\* the sender of the forwarded message, or else of the replied-to message.
C17_LookupFailureFallsBack ==
    [][(/\ GetUsersFail(1)
        /\ handlers'[1].pc # "get_users"
        /\ \A i \in (handlers[1].pos + 1)..Len(InboxButtons) : InboxButtons[i].user = None
        /\ Falsy(extract_user_id_from_message(TextOf(inbox)))
        /\ \A i \in 1..Len(inbox.entities) : inbox.entities[i].type # "MENTION"
        /\ (inbox.forward_from # None \/ inbox.reply_from # None))
       => handlers'[1].user_id =
              (IF inbox.forward_from # None THEN inbox.forward_from
               ELSE inbox.reply_from)]_vars

\* C18: when a button carries a user, the trigger resolves to the user of such
\* a button, also when an earlier button carries callback data with a run of 9
\* or more digits.
C18_HandleBeatsEarlierCallback ==
    (/\ Resolved
     /\ \E i \in UserButtons(inbox) :
            \E j \in 1..(i - 1) : HasRun(InboxButtons[j].callback_data, 9))
    => handlers[1].user_id \in {InboxButtons[i].user : i \in UserButtons(inbox)}


\* ----------------------------------------------------- claims on the store
\* C19: the identities with an entry in the store are the identities with a
\* history.
C19_StateIffHistory == DOMAIN active_conversations = DOMAIN conversations_history

\* One identity has an entry and a history that a reply extended, the other
\* has neither.
C19_Witness ==
    \E u \in Ids :
        /\ u \in DOMAIN active_conversations /\ u \in DOMAIN conversations_history
        /\ Len(conversations_history[u]) > 2
        /\ \E v \in Ids : v \notin DOMAIN active_conversations
                          /\ v \notin DOMAIN conversations_history

\* C20: an identity has an entry in the store only when a greeting has been
\* delivered to it: nothing is recorded before the send returns nor after it
\* failed.
C20_StateOnlyAfterDelivery ==
    \A u \in DOMAIN active_conversations : greetings[u] >= 1

\* A greeting failed for an identity that has no entry, and another identity
\* has been greeted.
C20_Witness ==
    /\ \E h \in H : /\ handlers[h].out = "send_failed"
                    /\ handlers[h].user_id \notin DOMAIN active_conversations
    /\ \E u \in DOMAIN active_conversations : greetings[u] >= 1

====
